---- MODULE Spec2Model ----
(***************************************************************************)
(* Model of the Telegram card game bot (src/index.js): the four tables of  *)
(* the store (users, cards, inventory, trades) and the bot's handlers.     *)
(*                                                                         *)
(* Every handler is an async function; it can be suspended at each await   *)
(* of a store query, and other handlers run in between.  None of the       *)
(* handlers opens a transaction (there is no BEGIN/COMMIT/ROLLBACK in the  *)
(* source), so every query is committed on its own.  One action of the     *)
(* model is one query reaching the store together with the synchronous     *)
(* code that runs when its result comes back.                              *)
(***************************************************************************)
EXTENDS Integers, Sequences, FiniteSets, TLC

\* ------------------------------------------------------------------ bounds

MaxUser  == 2      \* Telegram user ids 1..MaxUser
MaxReq   == 2      \* pack handlers that can be in flight together
MaxInv   == 11     \* rows of the inventory table
MaxTrade == 2      \* rows of the trades table
MaxTicks == 1      \* advances of the wall clock
MaxOps   == 1      \* handler invocations in one behaviour (packs)
MaxRaceOps == 2    \* handler invocations in one behaviour (interleaved packs)
MaxBootOps == 1    \* handler invocations in one behaviour (fresh database)
MaxBootInv == 6    \* rows of the inventory table (fresh database)
MaxClaimOps == 3   \* handler invocations in one behaviour (free packs in a row)
MaxClaimInv == 16  \* rows of the inventory table (free packs in a row)
MaxIncomeOps == 2  \* runs of the hourly income in one behaviour
MaxSlack == 1      \* how far a draw can exceed the sum of the weights
MaxAllOps == 2     \* handler invocations in one behaviour (all handlers)
MaxAllInv == 6     \* rows of the inventory table (all handlers)
MaxLedgerOps == 2  \* handler invocations in one behaviour (income and purchases)
MaxLedgerInv == 4  \* rows of the inventory table (income and purchases)
MaxTradeOps == 4   \* handler invocations in one behaviour (trades)
TickStep == 30     \* minutes the wall clock advances at once

\* ------------------------------------------------------- program constants

COOLDOWN_MINUTES == 30
MsPerMinute      == 60000
FreePackCount    == 5

Users == 1..MaxUser
Slots == 1..MaxReq

\* Object.keys(RARITY_DEFAULTS), in insertion order.
Rarities == <<"common", "rare", "epic", "legendary">>

RARITY_DEFAULTS ==
  [ common    |-> [weight |-> 60, coins_per_hour |-> 1],
    rare      |-> [weight |-> 25, coins_per_hour |-> 3],
    epic      |-> [weight |-> 10, coins_per_hour |-> 8],
    legendary |-> [weight |-> 5,  coins_per_hour |-> 20] ]

Weights == [k \in 1..Len(Rarities) |-> RARITY_DEFAULTS[Rarities[k]].weight]

\* The shop's bundles, <<count, price>>.
Bundles == { <<2, 20>>, <<3, 25>>, <<10, 60>> }

RECURSIVE SumSeq(_)
SumSeq(w) == IF w = <<>> THEN 0 ELSE Head(w) + SumSeq(Tail(w))

\* WeightedFrom with rnd < 0 in the place of rnd <= 0.
WeightedFromStrict(items, weights, k, rnd) ==
  LET RECURSIVE From(_, _)
      From(j, x) ==
        IF j > Len(items) THEN items[Len(items)]
        ELSE IF x - weights[j] < 0 THEN items[j]
             ELSE From(j + 1, x - weights[j])
  IN  From(k, rnd)

\* weightedChoice(items, weights) for the draw rnd = Math.random() * sum.
RECURSIVE WeightedFrom(_, _, _, _)
WeightedFrom(items, weights, k, rnd) ==
  IF k > Len(items) THEN items[Len(items)]
  ELSE IF rnd - weights[k] <= 0 THEN items[k]
       ELSE WeightedFrom(items, weights, k + 1, rnd - weights[k])

weightedChoice(items, weights, rnd) == WeightedFrom(items, weights, 1, rnd)

\* The draws Math.random() * sum the pack loops are run with: one that
\* yields the first tier and one that yields the last.
PackDraws == {0, SumSeq(Weights) - 1}

\* ------------------------------------------------------------------- state

VARIABLES
  users,         \* tg_id of the rows of table users
  coins,         \* users.coins
  last_pack,     \* users.last_pack, a TIMESTAMP (wall time, in minutes)
  cards,         \* table cards; the id of a row is its index
  inventory,     \* table inventory; the id of a row is its index
  trades,        \* table trades; the id of a row is its index
  clock,         \* the wall clock (new Date()), in minutes since the epoch
  req,           \* the handler invocations in flight, one per slot
  ops,           \* the number of handler invocations so far
  bigintAsText,  \* whether the driver returns BIGINT columns as text
  tzOffset       \* the process's local time zone, minutes east of UTC

store == <<users, coins, last_pack, cards, inventory, trades>>
env   == <<bigintAsText, tzOffset>>
vars  == <<users, coins, last_pack, cards, inventory, trades, clock, req, ops,
           bigintAsText, tzOffset>>

\* The local time zones of the process that are modelled.
TzOffsets == {0, 2 * COOLDOWN_MINUTES}

NoTrade == [from_user |-> 0, to_user |-> 0, offered_inventory_id |-> 0,
            status |-> "none"]

\* A slot with no handler running.  uid..tr are the handler's parameters and
\* local variables (named as in the source; rows is what is left of rows.rows
\* for the loop of givePassiveIncomeAll, rnd is Math.random() * sum of a call
\* of weightedChoice); paid is the list of the rows whose UPDATE the income
\* run has made, ins is the list of inventory ids
\* the invocation has inserted, sent is whether its notification of the
\* counterpart was delivered, at is the place where it failed, res is the
\* outcome it reported.
Idle ==
  [ kind |-> "idle", pc |-> "idle", uid |-> 0, now |-> 0, coins |-> 0,
    count |-> 0, price |-> 0, ncards |-> 0, i |-> 0, card |-> 0,
    invId |-> 0, toUser |-> 0, trId |-> 0, tr |-> NoTrade, rows |-> <<>>,
    rnd |-> 0, paid |-> <<>>,
    ins |-> <<>>, sent |-> "none", at |-> "none", res |-> "none" ]

\* now.toISOString() written to a TIMESTAMP (without time zone) column: the
\* zone designator is ignored and the UTC wall time is stored.
ToTimestamp(now) == now

\* new Date(row.last_pack): the driver reads a TIMESTAMP as local wall time.
FromTimestamp(stored) == stored - tzOffset

\* a !== b between a BIGINT column of a result row and a Telegram id (a JS
\* number): strict inequality, true of a text and a number whatever they hold.
StrictNotEqual(column, id) == IF bigintAsText THEN TRUE ELSE column # id

\* Inventory rows still to be inserted by the pack loops in flight.
Reserved(s) ==
  IF req[s].kind \in {"free_pack", "buy"} /\ req[s].pc \notin {"done", "failed"}
  THEN req[s].count - req[s].i ELSE 0

RECURSIVE ReservedAll(_)
ReservedAll(S) ==
  IF S = {} THEN 0
  ELSE LET s == CHOOSE x \in S : TRUE IN Reserved(s) + ReservedAll(S \ {s})

Room(n, cap) == Len(inventory) + ReservedAll(Slots) + n <= cap

\* pool.query('INSERT INTO users (tg_id) VALUES ($1) ON CONFLICT DO NOTHING')
ensureUser(tg_id) == users' = users \cup {tg_id}

Set(s, r) == req' = [req EXCEPT ![s] = r]

\* The handler returns: its locals are dropped, what it reported is kept.
Done(r, res) ==
  [Idle EXCEPT !.kind = r.kind, !.pc = "done", !.uid = r.uid, !.now = r.now,
               !.coins = r.coins, !.count = r.count, !.price = r.price,
               !.i = r.i, !.invId = r.invId, !.toUser = r.toUser,
               !.trId = r.trId, !.tr = r.tr, !.ins = r.ins, !.paid = r.paid,
               !.sent = r.sent,
               !.res = res]

\* ---------------------------------------------------- free pack (free_pack)

\* bot.action('free_pack') is invoked for user uid.
StartFreePack(s, uid, cap, lim) ==
  /\ req[s].kind = "idle" /\ ops < lim
  /\ Room(FreePackCount, cap)
  /\ Set(s, [Idle EXCEPT !.kind = "free_pack", !.pc = "fp_ensure",
                         !.uid = uid, !.count = FreePackCount])
  /\ ops' = ops + 1
  /\ UNCHANGED <<store, clock, env>>

\* await ensureUser(uid); const now = new Date(); the SELECT is issued.
FpEnsure(s) ==
  /\ req[s].kind = "free_pack" /\ req[s].pc = "fp_ensure"
  /\ ensureUser(req[s].uid)
  /\ Set(s, [req[s] EXCEPT !.pc = "fp_select", !.now = clock])
  /\ UNCHANGED <<coins, last_pack, cards, inventory, trades, clock,
                 ops, env>>

\* SELECT last_pack; the cooldown test; the UPDATE is issued when it passes.
FpSelect(s) ==
  /\ req[s].kind = "free_pack" /\ req[s].pc = "fp_select"
  /\ LET r    == req[s]
         last == IF r.uid \in users THEN FromTimestamp(last_pack[r.uid]) ELSE 0
         diff == (r.now - last) * MsPerMinute
     IN  IF diff < COOLDOWN_MINUTES * MsPerMinute
         THEN Set(s, Done(r, "CooldownActive"))
         ELSE Set(s, [r EXCEPT !.pc = "fp_update"])
  /\ UNCHANGED <<store, clock, ops, env>>

\* UPDATE users SET last_pack=$1 WHERE tg_id=$2
FpUpdate(s) ==
  /\ req[s].kind = "free_pack" /\ req[s].pc = "fp_update"
  /\ last_pack' = IF req[s].uid \in users
                  THEN [last_pack EXCEPT ![req[s].uid] = ToTimestamp(req[s].now)]
                  ELSE last_pack
  /\ Set(s, [req[s] EXCEPT !.pc = "pk_cards"])
  /\ UNCHANGED <<users, coins, cards, inventory, trades, clock,
                 ops, env>>

\* ------------------------------------------------------- purchase (buyPack)

\* bot.action(/buy_/) is invoked for user uid with a bundle of the shop.
StartBuy(s, uid, bundle, cap, lim) ==
  /\ req[s].kind = "idle" /\ ops < lim
  /\ Room(bundle[1], cap)
  /\ Set(s, [Idle EXCEPT !.kind = "buy", !.pc = "bp_select", !.uid = uid,
                         !.count = bundle[1], !.price = bundle[2]])
  /\ ops' = ops + 1
  /\ UNCHANGED <<store, clock, env>>

\* BpSelect with the balance compared with the bundle's count, not its price.
BpSelectComparesCount(s) ==
  /\ req[s].kind = "buy" /\ req[s].pc = "bp_select"
  /\ LET r == req[s]
         c == IF r.uid \in users THEN coins[r.uid] ELSE 0
     IN  IF c < r.count
         THEN Set(s, Done([r EXCEPT !.coins = c], "InsufficientFunds"))
         ELSE Set(s, [r EXCEPT !.pc = "bp_debit", !.coins = c])
  /\ UNCHANGED <<store, clock, ops, env>>

\* SELECT coins; the balance test; the debit is issued when it passes.
BpSelect(s) ==
  /\ req[s].kind = "buy" /\ req[s].pc = "bp_select"
  /\ LET r == req[s]
         c == IF r.uid \in users THEN coins[r.uid] ELSE 0
     IN  IF c < r.price
         THEN Set(s, Done([r EXCEPT !.coins = c], "InsufficientFunds"))
         ELSE Set(s, [r EXCEPT !.pc = "bp_debit", !.coins = c])
  /\ UNCHANGED <<store, clock, ops, env>>

\* BpDebit with the bundle's count, not its price, taken off the balance.
BpDebitSubtractsCount(s) ==
  /\ req[s].kind = "buy" /\ req[s].pc = "bp_debit"
  /\ coins' = IF req[s].uid \in users
              THEN [coins EXCEPT ![req[s].uid] = @ - req[s].count]
              ELSE coins
  /\ Set(s, [req[s] EXCEPT !.pc = "pk_cards"])
  /\ UNCHANGED <<users, last_pack, cards, inventory, trades, clock,
                 ops, env>>

\* BpDebit that writes the balance read by the SELECT less the price.
BpDebitWritesRead(s) ==
  /\ req[s].kind = "buy" /\ req[s].pc = "bp_debit"
  /\ coins' = IF req[s].uid \in users
              THEN [coins EXCEPT ![req[s].uid] = req[s].coins - req[s].price]
              ELSE coins
  /\ Set(s, [req[s] EXCEPT !.pc = "pk_cards"])
  /\ UNCHANGED <<users, last_pack, cards, inventory, trades, clock,
                 ops, env>>

\* UPDATE users SET coins = coins - $1 WHERE tg_id = $2
BpDebit(s) ==
  /\ req[s].kind = "buy" /\ req[s].pc = "bp_debit"
  /\ coins' = IF req[s].uid \in users
              THEN [coins EXCEPT ![req[s].uid] = @ - req[s].price]
              ELSE coins
  /\ Set(s, [req[s] EXCEPT !.pc = "pk_cards"])
  /\ UNCHANGED <<users, last_pack, cards, inventory, trades, clock,
                 ops, env>>

\* ------------------------------------- the pack loop of both call sites

\* SELECT ... FROM cards: cardsDb is the catalog as it is now, for the
\* whole loop (cards are never deleted: the snapshot is the first ncards rows).
PkCards(s) ==
  /\ req[s].kind \in {"free_pack", "buy"} /\ req[s].pc = "pk_cards"
  /\ Set(s, [req[s] EXCEPT !.ncards = Len(cards),
                           !.pc = IF Len(cards) > 0 THEN "pk_inv" ELSE "pk_card"])
  /\ UNCHANGED <<store, clock, ops, env>>

\* The card of one copy when cardsDb is not empty: of the sampled rarity if
\* cardsDb has one, any card of cardsDb otherwise.
Choices(n, rarity) ==
  LET bucket == {c \in 1..n : cards[c].rarity = rarity}
  IN  IF bucket # {} THEN bucket ELSE 1..n

\* AfterInsert with the loop left one copy early.
AfterInsertStopsEarly(r, id) ==
  LET j == r.i + 1
  IN  IF j >= r.count - 1
      THEN Done([r EXCEPT !.i = j, !.ins = Append(@, id)], "ok")
      ELSE [r EXCEPT !.i = j, !.ins = Append(@, id), !.card = 0,
                     !.pc = IF r.ncards > 0 THEN "pk_inv" ELSE "pk_card"]

AfterInsert(r, id) ==
  LET j == r.i + 1
  IN  IF j = r.count
      THEN Done([r EXCEPT !.i = j, !.ins = Append(@, id)], "ok")
      ELSE [r EXCEPT !.i = j, !.ins = Append(@, id), !.card = 0,
                     !.pc = IF r.ncards > 0 THEN "pk_inv" ELSE "pk_card"]

\* INSERT INTO inventory (user_id, card_id), cardsDb not empty.
PkInsertChosen(s) ==
  /\ req[s].kind \in {"free_pack", "buy"} /\ req[s].pc = "pk_inv"
  /\ req[s].ncards > 0
  /\ \E rnd \in PackDraws :
       \E c \in Choices(req[s].ncards, weightedChoice(Rarities, Weights, rnd)) :
         /\ inventory' = Append(inventory, [user_id |-> req[s].uid, card_id |-> c])
         /\ Set(s, AfterInsert(req[s], Len(inventory) + 1))
  /\ UNCHANGED <<users, coins, last_pack, cards, trades, clock,
                 ops, env>>

\* INSERT INTO cards (name, rarity, coins_per_hour) ... RETURNING id, cardsDb
\* empty: a new card of the sampled rarity.
PkInsertCard(s) ==
  /\ req[s].kind \in {"free_pack", "buy"} /\ req[s].pc = "pk_card"
  /\ \E rnd \in PackDraws :
       LET rarity == weightedChoice(Rarities, Weights, rnd)
       IN  cards' = Append(cards, [rarity |-> rarity,
                     coins_per_hour |-> RARITY_DEFAULTS[rarity].coins_per_hour])
  /\ Set(s, [req[s] EXCEPT !.card = Len(cards) + 1, !.pc = "pk_inv"])
  /\ UNCHANGED <<users, coins, last_pack, inventory, trades, clock,
                 ops, env>>

\* INSERT INTO inventory (user_id, card_id) of the card just created.
PkInsertNew(s) ==
  /\ req[s].kind \in {"free_pack", "buy"} /\ req[s].pc = "pk_inv"
  /\ req[s].ncards = 0
  /\ inventory' = Append(inventory, [user_id |-> req[s].uid, card_id |-> req[s].card])
  /\ Set(s, AfterInsert(req[s], Len(inventory) + 1))
  /\ UNCHANGED <<users, coins, last_pack, cards, trades, clock,
                 ops, env>>

\* ------------------------------------------- trade proposal (bot.on('text'))

InFlight(kind) == Cardinality({s \in Slots : req[s].kind = kind /\ req[s].pc # "done"
                                              /\ req[s].pc # "failed"})

\* User uid sends the text "inv#<invId> <toUser>" (both parsed non-zero).
StartPropose(s, uid, invId, toUser, lim) ==
  /\ req[s].kind = "idle" /\ ops < lim
  /\ Len(trades) + InFlight("propose") < MaxTrade
  /\ Set(s, [Idle EXCEPT !.kind = "propose", !.pc = "pt_ensure", !.uid = uid,
                         !.invId = invId, !.toUser = toUser])
  /\ ops' = ops + 1
  /\ UNCHANGED <<store, clock, env>>

\* await ensureUser(toUser); the SELECT of the entry's owner is issued.
PtEnsure(s) ==
  /\ req[s].kind = "propose" /\ req[s].pc = "pt_ensure"
  /\ ensureUser(req[s].toUser)
  /\ Set(s, [req[s] EXCEPT !.pc = "pt_select"])
  /\ UNCHANGED <<coins, last_pack, cards, inventory, trades, clock,
                 ops, env>>

\* PtSelect without the test of the entry's owner.
PtSelectSkipsOwner(s) ==
  /\ req[s].kind = "propose" /\ req[s].pc = "pt_select"
  /\ LET r == req[s]
     IN  IF r.invId \notin 1..Len(inventory)
         THEN Set(s, Done(r, "InventoryNotFound"))
         ELSE Set(s, [r EXCEPT !.pc = "pt_insert"])
  /\ UNCHANGED <<store, clock, ops, env>>

\* SELECT user_id FROM inventory WHERE id=$1 and the two tests on it.
PtSelect(s) ==
  /\ req[s].kind = "propose" /\ req[s].pc = "pt_select"
  /\ LET r == req[s]
     IN  IF r.invId \notin 1..Len(inventory)
         THEN Set(s, Done(r, "InventoryNotFound"))
         ELSE IF StrictNotEqual(inventory[r.invId].user_id, r.uid)
              THEN Set(s, Done(r, "NotOwner"))
              ELSE Set(s, [r EXCEPT !.pc = "pt_insert"])
  /\ UNCHANGED <<store, clock, ops, env>>

\* INSERT INTO trades (from_user, to_user, offered_inventory_id, status)
PtInsert(s) ==
  /\ req[s].kind = "propose" /\ req[s].pc = "pt_insert"
  /\ trades' = Append(trades, [from_user |-> req[s].uid, to_user |-> req[s].toUser,
                               offered_inventory_id |-> req[s].invId,
                               status |-> "pending"])
  /\ Set(s, [req[s] EXCEPT !.trId = Len(trades) + 1, !.pc = "pt_reply"])
  /\ UNCHANGED <<users, coins, last_pack, cards, inventory, clock,
                 ops, env>>

\* await ctx.reply(...): the proposer is told the id of the trade.
PtReply(s) ==
  /\ req[s].kind = "propose" /\ req[s].pc = "pt_reply"
  /\ Set(s, [req[s] EXCEPT !.pc = "pt_notify"])
  /\ UNCHANGED <<store, clock, ops, env>>

\* try { await bot.telegram.sendMessage(toUser, ...) } catch (e) {}
PtNotify(s) ==
  /\ req[s].kind = "propose" /\ req[s].pc = "pt_notify"
  /\ \E delivered \in {"yes", "no"} :
       Set(s, Done([req[s] EXCEPT !.sent = delivered], "ok"))
  /\ UNCHANGED <<store, clock, ops, env>>

\* ---------------------------------------- trade acceptance (trade_accept:)

\* User uid presses the button trade_accept:<trId>.
StartAccept(s, uid, trId, lim) ==
  /\ req[s].kind = "idle" /\ ops < lim
  /\ Set(s, [Idle EXCEPT !.kind = "accept", !.pc = "at_select", !.uid = uid,
                         !.trId = trId])
  /\ ops' = ops + 1
  /\ UNCHANGED <<store, clock, env>>

\* AtSelect with the acting user compared with the proposer, not the target.
AtSelectChecksProposer(s) ==
  /\ req[s].kind = "accept" /\ req[s].pc = "at_select"
  /\ LET r == req[s]
     IN  IF r.trId \notin 1..Len(trades)
         THEN Set(s, Done(r, "NotFound"))
         ELSE IF StrictNotEqual(trades[r.trId].from_user, r.uid)
              THEN Set(s, Done([r EXCEPT !.tr = trades[r.trId]], "NotTarget"))
              ELSE Set(s, [r EXCEPT !.tr = trades[r.trId], !.pc = "at_xfer"])
  /\ UNCHANGED <<store, clock, ops, env>>

\* AtSelect that also refuses when the offered entry is no longer the
\* proposer's.
AtSelectRechecksOwner(s) ==
  /\ req[s].kind = "accept" /\ req[s].pc = "at_select"
  /\ LET r == req[s]
     IN  IF r.trId \notin 1..Len(trades)
         THEN Set(s, Done(r, "NotFound"))
         ELSE IF StrictNotEqual(trades[r.trId].to_user, r.uid)
              THEN Set(s, Done([r EXCEPT !.tr = trades[r.trId]], "NotTarget"))
              ELSE IF inventory[trades[r.trId].offered_inventory_id].user_id
                        # trades[r.trId].from_user
                   THEN Set(s, Done([r EXCEPT !.tr = trades[r.trId]], "NotOwner"))
                   ELSE Set(s, [r EXCEPT !.tr = trades[r.trId], !.pc = "at_xfer"])
  /\ UNCHANGED <<store, clock, ops, env>>

\* SELECT * FROM trades WHERE id=$1 and the two tests on the row.
AtSelect(s) ==
  /\ req[s].kind = "accept" /\ req[s].pc = "at_select"
  /\ LET r == req[s]
     IN  IF r.trId \notin 1..Len(trades)
         THEN Set(s, Done(r, "NotFound"))
         ELSE IF StrictNotEqual(trades[r.trId].to_user, r.uid)
              THEN Set(s, Done([r EXCEPT !.tr = trades[r.trId]], "NotTarget"))
              ELSE Set(s, [r EXCEPT !.tr = trades[r.trId], !.pc = "at_xfer"])
  /\ UNCHANGED <<store, clock, ops, env>>

\* UPDATE inventory SET user_id = $1 WHERE id = $2
AtTransfer(s) ==
  /\ req[s].kind = "accept" /\ req[s].pc = "at_xfer"
  /\ inventory' = [inventory EXCEPT ![req[s].tr.offered_inventory_id].user_id =
                                      req[s].tr.to_user]
  /\ Set(s, [req[s] EXCEPT !.pc = "at_status"])
  /\ UNCHANGED <<users, coins, last_pack, cards, trades, clock,
                 ops, env>>

\* UPDATE trades SET status='accepted' WHERE id=$2
AtStatus(s) ==
  /\ req[s].kind = "accept" /\ req[s].pc = "at_status"
  /\ trades' = [trades EXCEPT ![req[s].trId].status = "accepted"]
  /\ Set(s, [req[s] EXCEPT !.pc = "at_reply"])
  /\ UNCHANGED <<users, coins, last_pack, cards, inventory, clock,
                 ops, env>>

\* await ctx.reply(...): the acceptor is told the card was handed over.
AtReply(s) ==
  /\ req[s].kind = "accept" /\ req[s].pc = "at_reply"
  /\ Set(s, [req[s] EXCEPT !.pc = "at_notify"])
  /\ UNCHANGED <<store, clock, ops, env>>

\* AtNotify without the try block: a sendMessage that throws ends the handler.
AtNotifyUncaught(s) ==
  /\ req[s].kind = "accept" /\ req[s].pc = "at_notify"
  /\ \/ Set(s, Done([req[s] EXCEPT !.sent = "yes"], "ok"))
     \/ Set(s, [req[s] EXCEPT !.pc = "failed", !.at = "at_notify", !.sent = "no",
                              !.res = "error"])
  /\ UNCHANGED <<store, clock, ops, env>>

\* try { await bot.telegram.sendMessage(tr.from_user, ...) } catch(e){}
AtNotify(s) ==
  /\ req[s].kind = "accept" /\ req[s].pc = "at_notify"
  /\ \E delivered \in {"yes", "no"} :
       Set(s, Done([req[s] EXCEPT !.sent = delivered], "ok"))
  /\ UNCHANGED <<store, clock, ops, env>>

\* ----------------------------------------- trade rejection (trade_reject:)

\* User uid presses the button trade_reject:<trId>.
StartReject(s, uid, trId, lim) ==
  /\ req[s].kind = "idle" /\ ops < lim
  /\ Set(s, [Idle EXCEPT !.kind = "reject", !.pc = "rj_update", !.uid = uid,
                         !.trId = trId])
  /\ ops' = ops + 1
  /\ UNCHANGED <<store, clock, env>>

\* RjUpdate that also hands the offered entry to the user who rejects.
RjUpdateTakesEntry(s) ==
  /\ req[s].kind = "reject" /\ req[s].pc = "rj_update"
  /\ trades' = IF req[s].trId \in 1..Len(trades)
               THEN [trades EXCEPT ![req[s].trId].status = "rejected"]
               ELSE trades
  /\ inventory' = IF req[s].trId \in 1..Len(trades)
                  THEN [inventory EXCEPT
                          ![trades[req[s].trId].offered_inventory_id].user_id = req[s].uid]
                  ELSE inventory
  /\ Set(s, [req[s] EXCEPT !.pc = "rj_reply"])
  /\ UNCHANGED <<users, coins, last_pack, cards, clock, ops, env>>

\* UPDATE trades SET status='rejected' WHERE id=$2 (no row read, no test).
RjUpdate(s) ==
  /\ req[s].kind = "reject" /\ req[s].pc = "rj_update"
  /\ trades' = IF req[s].trId \in 1..Len(trades)
               THEN [trades EXCEPT ![req[s].trId].status = "rejected"]
               ELSE trades
  /\ Set(s, [req[s] EXCEPT !.pc = "rj_reply"])
  /\ UNCHANGED <<users, coins, last_pack, cards, inventory, clock,
                 ops, env>>

\* await ctx.reply(...): the user is told the trade is rejected.
RjReply(s) ==
  /\ req[s].kind = "reject" /\ req[s].pc = "rj_reply"
  /\ Set(s, Done(req[s], "ok"))
  /\ UNCHANGED <<store, clock, ops, env>>

\* ------------------------------------- passive income (givePassiveIncomeAll)

\* COALESCE(SUM(c.coins_per_hour),0) of the join for user u: one term for each
\* of the first k inventory rows that u owns.
RECURSIVE IncomeUpTo(_, _)
IncomeUpTo(u, k) ==
  IF k = 0 THEN 0
  ELSE IncomeUpTo(u, k - 1)
         + (IF inventory[k].user_id = u THEN cards[inventory[k].card_id].coins_per_hour
            ELSE 0)

IncomeOf(u) == IncomeUpTo(u, Len(inventory))

\* The orders in which GROUP BY (there is no ORDER BY) can list the users.
Orderings(S) ==
  {f \in [1..Cardinality(S) -> S] : \A a, b \in 1..Cardinality(S) : a # b => f[a] # f[b]}

\* for (const r of rows.rows): the rows with income > 0 false are passed over
\* without an await.
RECURSIVE SkipZero(_)
SkipZero(rows) ==
  IF rows = <<>> THEN <<>>
  ELSE IF Head(rows).income > 0 THEN rows ELSE SkipZero(Tail(rows))

\* The loop has reached rows: it awaits the UPDATE of the first of them, or,
\* with none left, the function returns (finally: client.release()).
AtRows(r, rows) ==
  IF rows = <<>> THEN Done(r, "ok")
  ELSE [r EXCEPT !.rows = rows, !.pc = "in_update"]

\* The timer of startBackgroundTasks fires.
StartIncome(s, lim) ==
  /\ req[s].kind = "idle" /\ ops < lim
  /\ Set(s, [Idle EXCEPT !.kind = "income", !.pc = "in_connect"])
  /\ ops' = ops + 1
  /\ UNCHANGED <<store, clock, env>>

\* const client = await pool.connect(); the SELECT is issued.
InConnect(s) ==
  /\ req[s].kind = "income" /\ req[s].pc = "in_connect"
  /\ Set(s, [req[s] EXCEPT !.pc = "in_select"])
  /\ UNCHANGED <<store, clock, ops, env>>

\* SELECT u.tg_id, COALESCE(SUM(c.coins_per_hour),0) AS income ... GROUP BY
InSelect(s) ==
  /\ req[s].kind = "income" /\ req[s].pc = "in_select"
  /\ \E order \in Orderings(users) :
       Set(s, AtRows(req[s],
                     SkipZero([k \in 1..Cardinality(users) |->
                                 [tg_id |-> order[k], income |-> IncomeOf(order[k])]])))
  /\ UNCHANGED <<store, clock, ops, env>>

\* InUpdate with the balance set to the income instead of raised by it.
InUpdateSetsBalance(s) ==
  /\ req[s].kind = "income" /\ req[s].pc = "in_update"
  /\ LET r == Head(req[s].rows)
     IN  coins' = [coins EXCEPT ![r.tg_id] = r.income]
  /\ Set(s, AtRows([req[s] EXCEPT !.paid = Append(@, Head(req[s].rows))],
                   SkipZero(Tail(req[s].rows))))
  /\ UNCHANGED <<users, last_pack, cards, inventory, trades, clock,
                 ops, env>>

\* UPDATE users SET coins = coins + $1 WHERE tg_id = $2, then the loop goes on.
InUpdate(s) ==
  /\ req[s].kind = "income" /\ req[s].pc = "in_update"
  /\ LET r == Head(req[s].rows)
     IN  coins' = [coins EXCEPT ![r.tg_id] = @ + r.income]
  /\ Set(s, AtRows([req[s] EXCEPT !.paid = Append(@, Head(req[s].rows))],
                   SkipZero(Tail(req[s].rows))))
  /\ UNCHANGED <<users, last_pack, cards, inventory, trades, clock,
                 ops, env>>

\* ------------------------------------------------------------ environment

\* The places where a handler awaits outside a try block: a query or a
\* reply that throws there ends the handler.
Awaits ==
  { "fp_ensure", "fp_select", "fp_update", "bp_select", "bp_debit",
    "pk_cards", "pk_inv", "pk_card",
    "pt_ensure", "pt_select", "pt_insert", "pt_reply",
    "at_select", "at_xfer", "at_status", "at_reply",
    "rj_update", "rj_reply",
    "in_connect", "in_select", "in_update" }

\* The awaited call throws (the connection is lost, the store or the
\* transport reports an error): it has no effect, the handler is left through
\* the exception, and nothing the handler wrote before is undone.  (The
\* exception of givePassiveIncomeAll is caught and logged by the timer's
\* callback, after the loop has been left.)
Fail(s) ==
  /\ req[s].pc \in Awaits
  /\ Set(s, [req[s] EXCEPT !.pc = "failed", !.at = req[s].pc, !.res = "error"])
  /\ UNCHANGED <<store, clock, ops, env>>

\* The slot of a handler that has returned or thrown is free again.
Finish(s) ==
  /\ req[s].pc \in {"done", "failed"}
  /\ Set(s, Idle)
  /\ UNCHANGED <<store, clock, ops, env>>

StartClock == 4 * COOLDOWN_MINUTES

\* Time passes.
Tick ==
  /\ clock < StartClock + MaxTicks * TickStep
  /\ clock' = clock + TickStep
  /\ UNCHANGED <<store, req, ops, env>>

\* ------------------------------------------------------------ initial states

Common    == [rarity |-> "common", coins_per_hour |-> RARITY_DEFAULTS.common.coins_per_hour]
Legendary == [rarity |-> "legendary",
              coins_per_hour |-> RARITY_DEFAULTS.legendary.coins_per_hour]

\* The clock, and no handler running.
InitEnv ==
  /\ clock = StartClock
  /\ req = [s \in Slots |-> Idle]
  /\ ops = 0

\* The store after initDb on a fresh database: four empty tables.
EmptyStore ==
  /\ users = {} /\ coins = [u \in Users |-> 0] /\ last_pack = [u \in Users |-> 0]
  /\ cards = <<>> /\ inventory = <<>> /\ trades = <<>>

\* A store the bot reaches from the empty one: the catalog holds `catalog`,
\* user 1 claimed a free pack at time `last`, of which the first copy (of card
\* 1) was inserted before a query failed, and hourly income has brought the
\* balance to c.  No other user has been seen.
SeededStore(catalog, c, last) ==
  /\ users = {1}
  /\ coins = [u \in Users |-> IF u = 1 THEN c ELSE 0]
  /\ last_pack = [u \in Users |-> IF u = 1 THEN ToTimestamp(last) ELSE 0]
  /\ cards = catalog
  /\ inventory = << [user_id |-> 1, card_id |-> 1] >>
  /\ trades = <<>>

InitCoins == {0, 19, 20, 45, 59, 60}

\* The seeded stores: a catalog of one card with each balance, and a catalog
\* of two cards of different rarities with the price of the smallest bundle.
Seeds ==
  { [catalog |-> <<Common>>, coins |-> c] : c \in InitCoins }
    \cup { [catalog |-> <<Common, Legendary>>, coins |-> 20] }

\* ------------------------------------------------ packs, one handler at a time

\* The deployment of a pack specification: any of the time zones.  (No pack
\* handler compares an id of a result row: bigintAsText is not read.)
PackEnv == tzOffset \in TzOffsets /\ bigintAsText = TRUE

\* The deployment of the trade specification: either driver behaviour.  (No
\* trade handler reads a timestamp: tzOffset is not read.)
TradeEnv == tzOffset = 0 /\ bigintAsText \in BOOLEAN

Init ==
  /\ InitEnv
  /\ PackEnv
  /\ \E seed \in Seeds :
       SeededStore(seed.catalog, seed.coins, StartClock - COOLDOWN_MINUTES)

ClaimStep(s) == FpEnsure(s) \/ FpSelect(s) \/ FpUpdate(s)
BuyStep(s)   == BpSelect(s) \/ BpDebit(s)
DrawStep(s)  == PkCards(s) \/ PkInsertChosen(s)
BootStep(s)  == PkInsertCard(s) \/ PkInsertNew(s)

\* The catalog of a seeded store is not empty and cards are never deleted:
\* no pack loop of this specification finds cardsDb empty.
Next ==
  \/ \E uid \in Users : StartFreePack(1, uid, MaxInv, MaxOps)
  \/ \E uid \in Users, b \in Bundles : StartBuy(1, uid, b, MaxInv, MaxOps)
  \/ ClaimStep(1)
  \/ BuyStep(1)
  \/ DrawStep(1)
  \/ Fail(1)
  \/ Finish(1)
  \/ Tick

Spec == Init /\ [][Next]_vars

\* ------------------------- packs on a fresh database and on a small catalog

BootSeeds ==
  { [catalog |-> <<Common>>, coins |-> 20],
    [catalog |-> <<Common, Legendary>>, coins |-> 25] }

\* The store is fresh (the first pack finds cardsDb empty and creates the
\* cards it hands out) or seeded with a catalog of one or two cards.
InitBoot ==
  /\ InitEnv
  /\ PackEnv
  /\ \/ EmptyStore
     \/ \E seed \in BootSeeds :
          SeededStore(seed.catalog, seed.coins, StartClock - COOLDOWN_MINUTES)

NextBoot ==
  \/ \E uid \in Users : StartFreePack(1, uid, MaxBootInv, MaxBootOps)
  \/ \E uid \in Users, b \in Bundles : StartBuy(1, uid, b, MaxBootInv, MaxBootOps)
  \/ ClaimStep(1)
  \/ BuyStep(1)
  \/ DrawStep(1)
  \/ BootStep(1)
  \/ Fail(1)
  \/ Finish(1)
  \/ Tick

SpecBoot == InitBoot /\ [][NextBoot]_vars

\* ------------------------------------------------- free packs, one after another

\* User 1 claimed a pack one cooldown ago; user 2 has never been seen.
InitClaim ==
  /\ InitEnv
  /\ PackEnv
  /\ SeededStore(<<Common>>, 0, StartClock - COOLDOWN_MINUTES)

NextClaim ==
  \/ \E uid \in Users : StartFreePack(1, uid, MaxClaimInv, MaxClaimOps)
  \/ ClaimStep(1)
  \/ DrawStep(1)
  \/ Fail(1)
  \/ Finish(1)
  \/ Tick

SpecClaim == InitClaim /\ [][NextClaim]_vars

\* ------------------------------------------------------- the hourly income

Epic == [rarity |-> "epic", coins_per_hour |-> RARITY_DEFAULTS.epic.coins_per_hour]

\* Users 1 and 2 have both claimed a pack and have been credited before; their
\* balances before the first tick modelled:
IncomeCoins == <<7, 3>>

\* Who owns a copy of which card: user 1 owns cards of rates 1 and 8 and
\* user 2 nothing; user 1 owns two copies of one card and user 2 one card;
\* user 2 owns both cards and user 1 nothing.
IncomeInventories ==
  { << [user_id |-> 1, card_id |-> 1], [user_id |-> 1, card_id |-> 2] >>,
    << [user_id |-> 1, card_id |-> 1], [user_id |-> 2, card_id |-> 2],
       [user_id |-> 1, card_id |-> 1] >>,
    << [user_id |-> 2, card_id |-> 1], [user_id |-> 2, card_id |-> 2] >> }

InitIncome ==
  /\ InitEnv
  /\ PackEnv
  /\ users = {1, 2}
  /\ coins = [u \in Users |-> IF u \in {1, 2} THEN IncomeCoins[u] ELSE 0]
  /\ last_pack = [u \in Users |-> IF u \in {1, 2}
                                  THEN ToTimestamp(StartClock - COOLDOWN_MINUTES) ELSE 0]
  /\ cards = <<Common, Epic>>
  /\ inventory \in IncomeInventories
  /\ trades = <<>>

IncomeStep(s) == InConnect(s) \/ InSelect(s) \/ InUpdate(s)

NextIncome ==
  \/ StartIncome(1, MaxIncomeOps)
  \/ IncomeStep(1)
  \/ Fail(1)
  \/ Finish(1)

SpecIncome == InitIncome /\ [][NextIncome]_vars

\* ------------------------------------------------------ the rarity sampling

\* The values of Math.random() * sum that are modelled: the integers of
\* [0, sum), among them every boundary between two tiers, and the values from
\* sum on that only a rounding slack could produce.
Draws == 0..(SumSeq(Weights) + MaxSlack)

\* weightedChoice(rarities, weights) is about to be called with a draw.
InitChoice ==
  /\ PackEnv /\ tzOffset = 0
  /\ EmptyStore
  /\ clock = StartClock /\ ops = 0
  /\ \E rnd \in Draws :
       req = [s \in Slots |-> IF s = 1
                THEN [Idle EXCEPT !.kind = "choice", !.pc = "wc_call", !.rnd = rnd]
                ELSE Idle]

\* The call returns the rarity.
Choose(s) ==
  /\ req[s].kind = "choice" /\ req[s].pc = "wc_call"
  /\ Set(s, [req[s] EXCEPT !.pc = "done",
                           !.res = weightedChoice(Rarities, Weights, req[s].rnd)])
  /\ UNCHANGED <<store, clock, ops, env>>

NextChoice == Choose(1)

SpecChoice == InitChoice /\ [][NextChoice]_vars

\* ------------------------------------------------- packs, handlers interleaved

RaceSeeds == { [catalog |-> <<Common>>, coins |-> c] : c \in {20, 45} }

InitRace ==
  /\ InitEnv
  /\ PackEnv
  /\ \E seed \in RaceSeeds :
       SeededStore(seed.catalog, seed.coins, StartClock - COOLDOWN_MINUTES)

NextRace ==
  \/ \E s \in Slots, uid \in Users : StartFreePack(s, uid, MaxInv, MaxRaceOps)
  \/ \E s \in Slots, uid \in Users, b \in Bundles : StartBuy(s, uid, b, MaxInv, MaxRaceOps)
  \/ \E s \in Slots : ClaimStep(s)
  \/ \E s \in Slots : BuyStep(s)
  \/ \E s \in Slots : DrawStep(s)
  \/ \E s \in Slots : Fail(s)
  \/ \E s \in Slots : Finish(s)
  \/ Tick

SpecRace == InitRace /\ [][NextRace]_vars

\* --------------------------------------------- trades, one handler at a time

\* User 1 owns inventory entry 1; no trade has been proposed.
InitTrade ==
  /\ InitEnv
  /\ TradeEnv
  /\ SeededStore(<<Common>>, 0, StartClock - COOLDOWN_MINUTES)

ProposeStep(s) == PtEnsure(s) \/ PtSelect(s) \/ PtInsert(s) \/ PtReply(s) \/ PtNotify(s)
AcceptStep(s)  == AtSelect(s) \/ AtTransfer(s) \/ AtStatus(s) \/ AtReply(s) \/ AtNotify(s)
RejectStep(s)  == RjUpdate(s) \/ RjReply(s)

NextTrade ==
  \/ \E uid \in Users, invId \in 1..(Len(inventory) + 1), toUser \in Users :
       StartPropose(1, uid, invId, toUser, MaxTradeOps)
  \/ \E uid \in Users, trId \in 1..(Len(trades) + 1) :
       StartAccept(1, uid, trId, MaxTradeOps)
  \/ \E uid \in Users, trId \in 1..(Len(trades) + 1) :
       StartReject(1, uid, trId, MaxTradeOps)
  \/ ProposeStep(1)
  \/ AcceptStep(1)
  \/ RejectStep(1)
  \/ Fail(1)
  \/ Finish(1)

SpecTrade == InitTrade /\ [][NextTrade]_vars

\* ------------------------------------------- all handlers, one at a time

\* User 1 owns inventory entry 1 and can pay for the smallest bundle.
InitAll ==
  /\ InitEnv
  /\ TradeEnv
  /\ SeededStore(<<Common>>, 20, StartClock - COOLDOWN_MINUTES)

NextAll ==
  \/ \E uid \in Users : StartFreePack(1, uid, MaxAllInv, MaxAllOps)
  \/ \E uid \in Users, b \in Bundles : StartBuy(1, uid, b, MaxAllInv, MaxAllOps)
  \/ \E uid \in Users, invId \in 1..(Len(inventory) + 1), toUser \in Users :
       StartPropose(1, uid, invId, toUser, MaxAllOps)
  \/ \E uid \in Users, trId \in 1..(Len(trades) + 1) :
       StartAccept(1, uid, trId, MaxAllOps)
  \/ \E uid \in Users, trId \in 1..(Len(trades) + 1) :
       StartReject(1, uid, trId, MaxAllOps)
  \/ StartIncome(1, MaxAllOps)
  \/ ClaimStep(1)
  \/ BuyStep(1)
  \/ DrawStep(1)
  \/ ProposeStep(1)
  \/ AcceptStep(1)
  \/ RejectStep(1)
  \/ IncomeStep(1)
  \/ Fail(1)
  \/ Finish(1)

SpecAll == InitAll /\ [][NextAll]_vars

\* ----------------------------- the hourly income and purchases, interleaved

\* The balances before: user 1 can pay for the smallest bundle.
LedgerStart == [u \in Users |-> IF u = 1 THEN 20 ELSE 0]

InitLedger ==
  /\ InitEnv
  /\ PackEnv
  /\ SeededStore(<<Common>>, LedgerStart[1], StartClock - COOLDOWN_MINUTES)

\* The handlers stay in their slots when they have returned.
NextLedger ==
  \/ \E s \in Slots : StartIncome(s, MaxLedgerOps)
  \/ \E s \in Slots, uid \in Users, b \in Bundles :
       StartBuy(s, uid, b, MaxLedgerInv, MaxLedgerOps)
  \/ \E s \in Slots : IncomeStep(s)
  \/ \E s \in Slots : BuyStep(s)
  \/ \E s \in Slots : DrawStep(s)
  \/ \E s \in Slots : Fail(s)

SpecLedger == InitLedger /\ [][NextLedger]_vars

\* ====================================================================== claims

IsPack(r) == r.kind \in {"free_pack", "buy"}

\* The rows of table inventory that invocation r inserted and that are still
\* in the table.
Remaining(r) == {k \in 1..Len(r.ins) : r.ins[k] \in 1..Len(inventory)}

\* ------------------------------------------------------------------------ C1
\* C1: of two concurrent free-pack claims by one user within one cooldown
\* window, at most one succeeds.  (Stated for a process in UTC, where a claim
\* that starts after another has written last_pack is refused: two successes
\* within the window are then two claims that ran concurrently.)
TwoClaimsInWindow(s1, s2) ==
  /\ s1 # s2
  /\ req[s1].kind = "free_pack" /\ req[s2].kind = "free_pack"
  /\ req[s1].uid = req[s2].uid
  /\ req[s1].res = "ok" /\ req[s2].res = "ok"
  /\ (req[s2].now - req[s1].now) * MsPerMinute < COOLDOWN_MINUTES * MsPerMinute
  /\ (req[s1].now - req[s2].now) * MsPerMinute < COOLDOWN_MINUTES * MsPerMinute

C1_AtMostOneClaimPerWindow ==
  tzOffset = 0 => \A s1, s2 \in Slots : ~TwoClaimsInWindow(s1, s2)

\* ------------------------------------------------------------------------ C2
\* C2: whatever the interleaving of a user's purchases, no more of them
\* succeed than the balance pays for: no balance is ever negative.
C2_NoOverdraft == \A u \in Users : coins[u] >= 0

\* ------------------------------------------------------------------------ C3
\* C3: the status of a trade only moves pending -> accepted or pending ->
\* rejected: a status that is not pending never changes again.
Statuses == {"pending", "accepted", "rejected"}

C3_Step ==
  \A t \in 1..Len(trades) :
    /\ trades'[t].status \in Statuses
    /\ trades[t].status # "pending" => trades'[t].status = trades[t].status

Owners == [k \in 1..Len(inventory) |-> inventory[k].user_id]

\* The lookup of an accept by the target user returns.
C4_Lookup(s) ==
  (/\ req[s].kind = "accept" /\ req[s].pc = "at_select"
   /\ req'[s].pc \notin {"at_select", "failed"}
   /\ req[s].trId \in 1..Len(trades)
   /\ trades[req[s].trId].to_user = req[s].uid
   /\ trades[req[s].trId].status # "pending")
    => (req'[s].pc = "done" /\ req'[s].res = "AlreadyResolved")

\* A step of an accept that found the trade no longer pending.
C4_NoTransfer(s) ==
  (/\ req[s].kind = "accept" /\ req'[s].kind = "accept"
   /\ req[s].tr.status \in {"accepted", "rejected"})
    => Owners' = Owners

Transferred(r) ==
  /\ r.kind = "accept"
  /\ r.pc \in {"at_status", "at_reply", "at_notify", "done", "failed"}
  /\ r.pc = "done" => r.res = "ok"
  /\ r.pc = "failed" => r.at \in {"at_status", "at_reply"}

RejectOutcome(trId, uid) ==
  IF trId \notin 1..Len(trades) THEN "NotFound"
  ELSE IF trades[trId].to_user # uid THEN "NotTarget"
  ELSE IF trades[trId].status # "pending" THEN "AlreadyResolved"
  ELSE "ok"

\* The UPDATE of a reject.
C6_Update(s) ==
  (req[s].kind = "reject" /\ req[s].pc = "rj_update" /\ req'[s].pc = "rj_reply")
    => IF RejectOutcome(req[s].trId, req[s].uid) = "ok"
       THEN trades'[req[s].trId].status = "rejected"
       ELSE trades' = trades

\* The answer of a reject of a trade that does not exist (no trade row is
\* ever deleted: it did not exist when the reject was made either).
C6_Answer(s) ==
  (/\ req[s].kind = "reject" /\ req[s].pc = "rj_reply" /\ req'[s].pc = "done"
   /\ req[s].trId \notin 1..Len(trades))
    => req'[s].res = "NotFound"

C6_RejectChecked == [][\A s \in Slots : C6_Update(s) /\ C6_Answer(s)]_vars

\* ------------------------------------------------------------------------ C7
\* C7: when pack generation fails after the debit of a purchase, the balance
\* is what it was before the purchase and no inventory entry of the purchase
\* remains.  (One handler at a time: the balance before is the one read.)
FailedInPack(r) == r.pc = "failed" /\ r.at \in {"pk_cards", "pk_inv", "pk_card"}

C7_DebitRolledBack ==
  \A s \in Slots :
    (req[s].kind = "buy" /\ FailedInPack(req[s]))
      => (coins[req[s].uid] = req[s].coins /\ Remaining(req[s]) = {})

\* ------------------------------------------------------------------------ C8
\* C8: a pack opening (free or purchased) that fails after k < count copies
\* leaves none of the k inventory entries and, for the free pack, leaves the
\* last-pack timestamp as it was.  (One invocation: the timestamp before is
\* not the time of this claim.)
C8_PackAllOrNothing ==
  \A s \in Slots :
    (IsPack(req[s]) /\ req[s].pc = "failed" /\ req[s].at \in {"pk_inv", "pk_card"})
      => /\ Remaining(req[s]) = {}
         /\ req[s].kind = "free_pack"
              => last_pack[req[s].uid] # ToTimestamp(req[s].now)

\* ------------------------------------------------------------------------ C9
\* C9: an acceptTrade by a user who is not the trade's target reports
\* NotTarget, one of a trade that does not exist reports NotFound, and both
\* return at the lookup with every table (the statuses of the trades and the
\* owners of the inventory entries among them) unchanged.
C9_Step(s) ==
  (/\ req[s].kind = "accept" /\ req[s].pc = "at_select"
   /\ req'[s].pc \notin {"at_select", "failed"})
    => /\ req[s].trId \notin 1..Len(trades)
            => (req'[s].pc = "done" /\ req'[s].res = "NotFound" /\ store' = store)
       /\ (req[s].trId \in 1..Len(trades) /\ trades[req[s].trId].to_user # req[s].uid)
            => (req'[s].pc = "done" /\ req'[s].res = "NotTarget" /\ store' = store)

C9_AcceptNotTargetNotFound == [][\A s \in Slots : C9_Step(s)]_vars

\* A user who is not the target of a pending trade between two users was
\* refused, and the entry is still the proposer's.
C9_Witness ==
  \E s \in Slots :
    /\ req[s].kind = "accept" /\ req[s].pc = "done" /\ req[s].res = "NotTarget"
    /\ req[s].trId \in 1..Len(trades)
    /\ trades[req[s].trId].to_user # req[s].uid
    /\ trades[req[s].trId].status = "pending"
    /\ inventory[trades[req[s].trId].offered_inventory_id].user_id
         = trades[req[s].trId].from_user

\* ----------------------------------------------------------------------- C10
\* C10: a purchase with balance < price reports InsufficientFunds and writes
\* nothing: the handler returns at the test and every table is unchanged.
BalanceOf(u) == IF u \in users THEN coins[u] ELSE 0

C10_Step(s) ==
  (/\ req[s].kind = "buy" /\ req[s].pc = "bp_select"
   /\ req'[s].pc \notin {"bp_select", "failed"}
   /\ BalanceOf(req[s].uid) < req[s].price)
    => /\ req'[s].pc = "done"
       /\ req'[s].res = "InsufficientFunds"
       /\ store' = store

C10_InsufficientFundsNoMutation == [][\A s \in Slots : C10_Step(s)]_vars

\* A purchase of the bundle of 10 for 60 was refused with a balance of 59.
C10_Witness ==
  \E s \in Slots :
    /\ req[s].kind = "buy" /\ req[s].res = "InsufficientFunds"
    /\ req[s].count = 10 /\ req[s].price = 60 /\ req[s].coins = 59
    /\ coins[req[s].uid] = 59 /\ Len(inventory) = 1

\* ----------------------------------------------------------------------- C11
\* C11: a successful purchase run without interference lowers the buyer's
\* balance by exactly the price and adds exactly count inventory entries, all
\* owned by the buyer; with a balance equal to the price the balance becomes 0.
\* (One handler at a time: the balance before is the one the SELECT read; the
\* seeded table holds one entry.)
C11_PurchaseDebitsAndDelivers ==
  \A s \in Slots :
    (req[s].kind = "buy" /\ req[s].pc = "done" /\ req[s].res = "ok")
      => /\ <<req[s].count, req[s].price>> \in Bundles
         /\ req[s].coins >= req[s].price
         /\ coins[req[s].uid] = req[s].coins - req[s].price
         /\ req[s].coins = req[s].price => coins[req[s].uid] = 0
         /\ Len(req[s].ins) = req[s].count
         /\ Cardinality({req[s].ins[k] : k \in 1..Len(req[s].ins)}) = req[s].count
         /\ \A k \in 1..Len(req[s].ins) :
              /\ req[s].ins[k] \in 1..Len(inventory)
              /\ inventory[req[s].ins[k]].user_id = req[s].uid
         /\ ops = 1 => Len(inventory) = 1 + req[s].count

\* The bundle of 10 for 60 was bought with a balance of 60: the balance is 0
\* and the table holds 10 more entries.
C11_Witness ==
  \E s \in Slots :
    /\ req[s].kind = "buy" /\ req[s].pc = "done" /\ req[s].res = "ok"
    /\ req[s].count = 10 /\ req[s].price = 60 /\ req[s].coins = 60
    /\ coins[req[s].uid] = 0 /\ Len(inventory) = 1 + 10

\* ----------------------------------------------------------------------- C12
\* C12: every completed pack opening has added exactly count new inventory
\* entries, each owned by the requesting user and each referencing a card of
\* the catalog, whether the catalog was empty or not when the pack was opened.
C12_PackDeliversCount ==
  \A s \in Slots :
    (IsPack(req[s]) /\ req[s].pc = "done" /\ req[s].res = "ok")
      => /\ Len(req[s].ins) = req[s].count
         /\ Cardinality({req[s].ins[k] : k \in 1..Len(req[s].ins)}) = req[s].count
         /\ \A k \in 1..Len(req[s].ins) :
              /\ req[s].ins[k] \in 1..Len(inventory)
              /\ inventory[req[s].ins[k]].user_id = req[s].uid
              /\ inventory[req[s].ins[k]].card_id \in 1..Len(cards)
         /\ ops = 1 => Len(inventory) \in {req[s].count, 1 + req[s].count}

\* A free pack was completed on a database whose catalog was empty: the five
\* entries of the table are those of the pack.
C12_Witness ==
  \E s \in Slots :
    /\ req[s].kind = "free_pack" /\ req[s].pc = "done" /\ req[s].res = "ok"
    /\ Len(inventory) = FreePackCount
    /\ \A k \in 1..Len(inventory) : inventory[k].card_id \in 1..Len(cards)

\* ----------------------------------------------------------------------- C13
\* C13: of free-pack claims made one after another, one made when
\* now - lastPack >= cooldown passes the test and sets lastPack to now, one
\* made when now - lastPack < cooldown reports CooldownActive and changes no
\* table; lastPack of a user who never claimed is the epoch.
LastPackOf(u) == IF u \in users THEN last_pack[u] ELSE 0

\* The cooldown test of a claim returns.
C13_Test(s) ==
  (/\ req[s].kind = "free_pack" /\ req[s].pc = "fp_select"
   /\ req'[s].pc \notin {"fp_select", "failed"})
    => IF req[s].now - LastPackOf(req[s].uid) < COOLDOWN_MINUTES
       THEN req'[s].pc = "done" /\ req'[s].res = "CooldownActive" /\ store' = store
       ELSE req'[s].pc = "fp_update"

\* The write of a claim that passed the test.
C13_Stamp(s) ==
  (req[s].kind = "free_pack" /\ req[s].pc = "fp_update" /\ req'[s].pc = "pk_cards")
    => last_pack'[req[s].uid] = req[s].now

C13_CooldownSequence == [][\A s \in Slots : C13_Test(s) /\ C13_Stamp(s)]_vars

\* ----------------------------------------------------------------------- C14
\* C14: one passive-income run without interference raises every user's
\* balance by exactly the sum of the income rates of the cards of the entries
\* the user owns, one term per copy; a user whose sum is 0 gets no write.
RECURSIVE SumRates(_)
SumRates(K) ==
  IF K = {} THEN 0
  ELSE LET k == CHOOSE x \in K : TRUE
       IN  cards[inventory[k].card_id].coins_per_hour + SumRates(K \ {k})

OwnedRates(u) == SumRates({k \in 1..Len(inventory) : inventory[k].user_id = u})

\* A step of a run: a balance stays or grows by the user's sum, and nothing
\* else is written.
C14_Step(s) ==
  req[s].kind = "income"
    => /\ \A u \in Users :
            /\ coins'[u] \in {coins[u], coins[u] + OwnedRates(u)}
            /\ OwnedRates(u) = 0 => coins'[u] = coins[u]
       /\ UNCHANGED <<users, last_pack, cards, inventory, trades>>

\* The first run has returned.
C14_Run(s) ==
  (req[s].kind = "income" /\ req[s].pc = "done" /\ ops = 1)
    => /\ req[s].res = "ok"
       /\ \A u \in users : coins[u] = IncomeCoins[u] + OwnedRates(u)

C14_IncomeCreditsSum ==
  /\ [](\A s \in Slots : C14_Run(s))
  /\ [][\A s \in Slots : C14_Step(s)]_vars

\* The first run has returned; user 1, owning cards of rates 1 and 8, has 9
\* more and user 2, owning nothing, has what it had.
C14_Witness ==
  \E s \in Slots :
    /\ req[s].kind = "income" /\ req[s].pc = "done" /\ ops = 1
    /\ OwnedRates(1) = RARITY_DEFAULTS.common.coins_per_hour
                         + RARITY_DEFAULTS.epic.coins_per_hour
    /\ OwnedRates(2) = 0
    /\ coins[1] = IncomeCoins[1] + OwnedRates(1)
    /\ coins[2] = IncomeCoins[2]

\* ----------------------------------------------------------------------- C15
\* C15: within one passive-income run, the failure of the credit of one user
\* does not prevent the credits of the others: every other user with a
\* positive sum is credited in that run.
C15_CreditFailureIsolated ==
  \A s \in Slots :
    (/\ req[s].kind = "income" /\ req[s].pc = "failed" /\ req[s].at = "in_update"
     /\ ops = 1)
      => \A u \in users \ {Head(req[s].rows).tg_id} :
           OwnedRates(u) > 0 => coins[u] = IncomeCoins[u] + OwnedRates(u)

\* ----------------------------------------------------------------------- C16
\* C16: proposeTrade reports InventoryNotFound when no inventory entry has
\* the id and NotOwner when the entry exists and its owner is not the
\* proposer; in both cases no trade row is created and no inventory entry
\* changes.
C16_Lookup(s) ==
  (/\ req[s].kind = "propose" /\ req[s].pc = "pt_select"
   /\ req'[s].pc \notin {"pt_select", "failed"})
    => /\ req[s].invId \notin 1..Len(inventory)
            => (req'[s].pc = "done" /\ req'[s].res = "InventoryNotFound")
       /\ (req[s].invId \in 1..Len(inventory)
             /\ inventory[req[s].invId].user_id # req[s].uid)
            => (req'[s].pc = "done" /\ req'[s].res = "NotOwner")

\* A step of a proposal up to and including its lookup.
C16_NoWrite(s) ==
  (req[s].kind = "propose" /\ req[s].pc \in {"pt_ensure", "pt_select"})
    => UNCHANGED <<trades, inventory>>

C16_ProposeRefused == [][\A s \in Slots : C16_Lookup(s) /\ C16_NoWrite(s)]_vars

\* With a driver that yields ids as numbers, a user who does not own entry 1
\* proposed it and was refused; there is no trade and the entry is the
\* owner's.
C16_Witness ==
  \E s \in Slots :
    /\ ~bigintAsText
    /\ req[s].kind = "propose" /\ req[s].pc = "done" /\ req[s].res = "NotOwner"
    /\ req[s].invId \in 1..Len(inventory)
    /\ inventory[req[s].invId].user_id # req[s].uid
    /\ trades = <<>>

\* ----------------------------------------------------------------------- C17
\* C17: a proposal by user A of an entry X that A owns, to user B, creates
\* one trade with status pending, proposer A, target B and offered entry X,
\* and leaves X owned by A; the acceptance of that trade by B makes B the
\* owner of X and sets the status to accepted.
C17_Propose(s) ==
  (/\ req[s].kind = "propose" /\ req[s].pc = "pt_select"
   /\ req'[s].pc \notin {"pt_select", "failed"}
   /\ req[s].invId \in 1..Len(inventory)
   /\ inventory[req[s].invId].user_id = req[s].uid)
    => req'[s].pc = "pt_insert"

C17_Create(s) ==
  (req[s].kind = "propose" /\ req[s].pc = "pt_insert" /\ req'[s].pc = "pt_reply")
    => /\ trades' = Append(trades, [from_user |-> req[s].uid, to_user |-> req[s].toUser,
                                    offered_inventory_id |-> req[s].invId,
                                    status |-> "pending"])
       /\ inventory' = inventory
       /\ inventory[req[s].invId].user_id = req[s].uid

C17_Accept(s) ==
  (/\ req[s].kind = "accept" /\ req[s].pc = "at_select"
   /\ req'[s].pc \notin {"at_select", "failed"}
   /\ req[s].trId \in 1..Len(trades)
   /\ trades[req[s].trId].to_user = req[s].uid
   /\ trades[req[s].trId].status = "pending")
    => req'[s].pc = "at_xfer"

C17_Accepted(s) ==
  (req[s].kind = "accept" /\ req[s].pc = "at_status" /\ req'[s].pc = "at_reply")
    => /\ trades'[req[s].trId].status = "accepted"
       /\ inventory'[trades[req[s].trId].offered_inventory_id].user_id
            = trades[req[s].trId].to_user

C17_Step ==
  \A s \in Slots : C17_Propose(s) /\ C17_Create(s) /\ C17_Accept(s) /\ C17_Accepted(s)

C17_TradeLifecycle == [][C17_Step]_vars

\* ----------------------------------------------------------------------- C18
\* C18: a notification of the counterpart that cannot be delivered never
\* fails or undoes the operation: the proposal or acceptance still returns
\* normally, after a proposal the pending trade row exists, after an
\* acceptance the entry is transferred and the trade accepted.
C18_Send(s) ==
  (req[s].pc \in {"pt_notify", "at_notify"} /\ req'[s] # req[s])
    => (req'[s].pc = "done" /\ req'[s].res = "ok" /\ store' = store)

C18_Undelivered(s) ==
  req[s].sent = "no"
    => /\ req[s].pc = "done" /\ req[s].res = "ok"
       /\ req[s].kind = "propose"
            => /\ req[s].trId \in 1..Len(trades)
               /\ trades[req[s].trId] =
                    [from_user |-> req[s].uid, to_user |-> req[s].toUser,
                     offered_inventory_id |-> req[s].invId, status |-> "pending"]
       /\ req[s].kind = "accept"
            => /\ trades[req[s].trId].status = "accepted"
               /\ inventory[req[s].tr.offered_inventory_id].user_id = req[s].tr.to_user

C18_NotificationSwallowed ==
  /\ [](\A s \in Slots : C18_Undelivered(s))
  /\ [][\A s \in Slots : C18_Send(s)]_vars

\* An acceptance between two users whose notification was not delivered has
\* returned: the entry is the target's and the trade is accepted.
C18_Witness ==
  \E s \in Slots :
    /\ req[s].kind = "accept" /\ req[s].pc = "done" /\ req[s].sent = "no"
    /\ req[s].tr.from_user # req[s].tr.to_user
    /\ trades[req[s].trId].status = "accepted"
    /\ inventory[req[s].tr.offered_inventory_id].user_id = req[s].tr.to_user

\* ----------------------------------------------------------------------- C19
\* C19: the card of each copy of a pack is chosen by the catalog as it is
\* when the copy is drawn: a card of the sampled rarity if the catalog holds
\* one, else any card of the catalog, and a new card (of the sampled rarity,
\* with that rarity's default income rate) only when the catalog is empty.
RaritySet == {Rarities[k] : k \in 1..Len(Rarities)}

\* A pack handler inserts a card: the catalog is empty.
C19_NewCard(s) ==
  (IsPack(req[s]) /\ cards' # cards)
    => /\ cards = <<>>
       /\ Len(cards') = 1
       /\ cards'[1].rarity \in RaritySet
       /\ cards'[1].coins_per_hour = RARITY_DEFAULTS[cards'[1].rarity].coins_per_hour

\* A pack handler inserts a copy: for some sampled rarity its card is one the
\* catalog allows.
C19_Copy(s) ==
  (IsPack(req[s]) /\ inventory' # inventory)
    => /\ Len(inventory') = Len(inventory) + 1
       /\ LET c == inventory'[Len(inventory')].card_id
          IN  /\ c \in 1..Len(cards)
              /\ \E rarity \in RaritySet :
                   (\E d \in 1..Len(cards) : cards[d].rarity = rarity)
                     => cards[c].rarity = rarity

C19_DrawFollowsCatalog == [][\A s \in Slots : C19_NewCard(s) /\ C19_Copy(s)]_vars

\* ----------------------------------------------------------------------- C20
\* C20: rarity sampling returns exactly one rarity of the table common=60,
\* rare=25, epic=10, legendary=5: the first tier, in table order, at which the
\* draw minus the weights subtracted so far is <= 0, and the last tier when no
\* tier reaches <= 0; no draw yields an undefined result.
Table == << <<"common", 60>>, <<"rare", 25>>, <<"epic", 10>>, <<"legendary", 5>> >>

RECURSIVE Subtracted(_)
Subtracted(k) == IF k = 0 THEN 0 ELSE Subtracted(k - 1) + Table[k][2]

Reached(r) == {k \in 1..Len(Table) : r - Subtracted(k) <= 0}

Tier(r) ==
  IF Reached(r) = {} THEN Len(Table)
  ELSE CHOOSE k \in Reached(r) : \A j \in Reached(r) : k <= j

C20_SamplingTotal ==
  \A s \in Slots :
    (req[s].kind = "choice" /\ req[s].pc = "done")
      => /\ req[s].res = Table[Tier(req[s].rnd)][1]
         /\ req[s].res \in {Table[k][1] : k \in 1..Len(Table)}

\* The draw on the boundary of the first tier (60 - 60 <= 0) returned common.
C20_Witness ==
  \E s \in Slots :
    /\ req[s].kind = "choice" /\ req[s].pc = "done"
    /\ req[s].rnd = RARITY_DEFAULTS.common.weight /\ req[s].res = "common"

\* ----------------------------------------------------------------------- C21
\* C21: the owner of an existing inventory entry is changed only by a trade
\* acceptance that passed its lookup, which hands the offered entry to the
\* trade's target; free-pack claim, purchase, passive-income run, proposal
\* and rejection leave the owner and the card of every existing entry as they
\* are; every entry has one owner, a user of table users.
C21_Hands(s, k) ==
  /\ req[s].kind = "accept" /\ req[s].pc = "at_xfer"
  /\ req[s].tr.to_user = req[s].uid
  /\ req[s].tr.offered_inventory_id = k
  /\ inventory'[k].user_id = req[s].tr.to_user

C21_Step ==
  /\ Len(inventory') >= Len(inventory)
  /\ \A k \in 1..Len(inventory) :
       /\ inventory'[k].card_id = inventory[k].card_id
       /\ inventory'[k].user_id # inventory[k].user_id
            => \E s \in Slots : C21_Hands(s, k)
  /\ \A s \in Slots :
       req[s].kind \in {"free_pack", "buy", "income", "propose", "reject"}
         => \A k \in 1..Len(inventory) : inventory'[k] = inventory[k]

C21_OneOwner ==
  \A k \in 1..Len(inventory) :
    inventory[k].user_id \in users /\ inventory[k].card_id \in 1..Len(cards)

C21_OwnerChangedOnlyByAccept == []C21_OneOwner /\ [][C21_Step]_vars

\* An acceptance by user 2 has handed entry 1 of user 1 to user 2.
C21_Witness ==
  \E s \in Slots :
    /\ req[s].kind = "accept" /\ req[s].pc = "done" /\ req[s].res = "ok"
    /\ req[s].tr.from_user = 1 /\ req[s].tr.to_user = 2
    /\ req[s].tr.offered_inventory_id = 1
    /\ inventory[1].user_id = 2

\* ----------------------------------------------------------------------- C22
\* C22: acceptTrade does not check again who owns the offered entry: when the
\* entry is no longer the proposer's, the target's acceptance still passes the
\* lookup, and the transfer makes the target the owner whoever owned the entry.
C22_Lookup(s) ==
  (/\ req[s].kind = "accept" /\ req[s].pc = "at_select"
   /\ req'[s].pc \notin {"at_select", "failed"}
   /\ req[s].trId \in 1..Len(trades)
   /\ trades[req[s].trId].to_user = req[s].uid
   /\ inventory[trades[req[s].trId].offered_inventory_id].user_id
        # trades[req[s].trId].from_user)
    => req'[s].pc = "at_xfer"

C22_Transfer(s) ==
  (req[s].kind = "accept" /\ req[s].pc = "at_xfer" /\ req'[s].pc = "at_status")
    => inventory'[req[s].tr.offered_inventory_id].user_id = req[s].tr.to_user

C22_AcceptIgnoresOwner == [][\A s \in Slots : C22_Lookup(s) /\ C22_Transfer(s)]_vars

\* The proposer offered one entry in two trades; the other trade was accepted
\* by its target, a different user, and then this one: the entry is this
\* trade's target's.
C22_Witness ==
  \E s \in Slots, other \in 1..Len(trades) :
    /\ req[s].kind = "accept" /\ req[s].pc = "done" /\ req[s].res = "ok"
    /\ other # req[s].trId
    /\ trades[other].offered_inventory_id = req[s].tr.offered_inventory_id
    /\ trades[other].status = "accepted"
    /\ req[s].tr.status = "pending"
    /\ trades[other].to_user # req[s].tr.from_user
    /\ trades[other].to_user # req[s].tr.to_user
    /\ inventory[req[s].tr.offered_inventory_id].user_id = req[s].tr.to_user

\* ----------------------------------------------------------------------- C23
\* C23: no balance update is lost when passive-income runs and purchases
\* interleave: in every state a user's balance is the balance before, plus
\* the income the runs have credited to the user, minus the prices the
\* user's purchases have debited; so after a run and a successful purchase it
\* is the balance before plus the income credited minus the price.
RECURSIVE PaidTo(_, _)
PaidTo(u, paid) ==
  IF paid = <<>> THEN 0
  ELSE (IF Head(paid).tg_id = u THEN Head(paid).income ELSE 0) + PaidTo(u, Tail(paid))

HasDebited(r) ==
  /\ r.kind = "buy"
  /\ \/ r.pc \in {"pk_cards", "pk_inv", "pk_card"}
     \/ r.pc = "done" /\ r.res = "ok"
     \/ r.pc = "failed" /\ r.at \in {"pk_cards", "pk_inv", "pk_card"}

RECURSIVE Ledger(_, _)
Ledger(u, S) ==
  IF S = {} THEN 0
  ELSE LET s == CHOOSE x \in S : TRUE
       IN  PaidTo(u, req[s].paid)
             - (IF HasDebited(req[s]) /\ req[s].uid = u THEN req[s].price ELSE 0)
             + Ledger(u, S \ {s})

C23_NoLostUpdate ==
  \A u \in Users : coins[u] = LedgerStart[u] + Ledger(u, Slots)

\* A purchase of 2 for 20 has succeeded on a balance read as 20, and a run
\* that selected while the purchase had inserted one of its copies has
\* credited 2: the balance is 20 + 2 - 20.
C23_Witness ==
  \E s1, s2 \in Slots :
    /\ req[s1].kind = "buy" /\ req[s1].pc = "done" /\ req[s1].res = "ok"
    /\ req[s1].uid = 1 /\ req[s1].count = 2 /\ req[s1].coins = LedgerStart[1]
    /\ req[s2].kind = "income" /\ req[s2].pc = "done"
    /\ req[s2].paid = << [tg_id |-> 1, income |-> 2] >>
    /\ coins[1] = LedgerStart[1] + 2 - req[s1].price

====
